---- MODULE Spec2Model ----
(***************************************************************************)
(* Model of the upload-to-extraction pipeline of app/extraction.py and of  *)
(* the POST /v1/extract handler of app/main.py.                            *)
(*                                                                         *)
(* Python strings are sequences of one-character strings.  A literal       *)
(* fragment of an f-string is kept as ONE token of the sequence (it holds  *)
(* no interpolated value), every interpolated value is spliced in          *)
(* character by character, so "the message contains the filename" is a     *)
(* real substring test.                                                    *)
(*                                                                         *)
(* One behaviour is one request: Init draws the batch, Extract starts the  *)
(* handler, every `await` of extract_from_upload is a suspension point of  *)
(* its task, asyncio.gather resolves its outer future, and Respond is the  *)
(* handler resuming and producing the HTTP response.                       *)
(***************************************************************************)
EXTENDS Naturals, Sequences, FiniteSets

VARIABLES
    files,      \* the request's List[UploadFile]: <<[filename, payload], ...>>
    pc,         \* per task: position in extract_from_upload
    tempFile,   \* per task: id of the file NamedTemporaryFile created (0: none)
    tempPath,   \* per task: the local temp_path (0: None)
    cleanup,    \* per task: what the finally block did
    engine,     \* per task: whether partition() was invoked
    outcome,    \* per task: the value returned or the exception raised
    fs,         \* the temporary directory: set of [id, suffix, content]
    finished,   \* gather: task indices in the order their done-callbacks ran
    outer,      \* gather: the outer future awaited by the handler
    handler,    \* the handler's position: "received", "gather", "responded"
    responses   \* the HTTP responses produced for the request, in order

vars == <<files, pc, tempFile, tempPath, cleanup, engine, outcome, fs,
          finished, outer, handler, responses>>

(***************************************************************************)
(* Bounds                                                                  *)
(***************************************************************************)
MaxFiles == 2

(***************************************************************************)
(* Strings                                                                 *)
(***************************************************************************)
UpperLetters == <<"A","B","C","D","E","F","G","H","I","J","K","L","M",
                  "N","O","P","Q","R","S","T","U","V","W","X","Y","Z">>
LowerLetters == <<"a","b","c","d","e","f","g","h","i","j","k","l","m",
                  "n","o","p","q","r","s","t","u","v","w","x","y","z">>

\* The one element of a singleton set.  A value that is used several times is
\* bound as the element of a singleton set ({e(x) : x \in {v}}, \E x \in {v}),
\* which evaluates it once wherever the definition is used.
The(S) == CHOOSE x \in S : TRUE

\* str.lower() on one character
LowerChar(c) ==
    IF \E k \in 1..Len(UpperLetters) : UpperLetters[k] = c
    THEN LowerLetters[CHOOSE k \in 1..Len(UpperLetters) : UpperLetters[k] = c]
    ELSE c

\* str.lower()
Lower(s) == [k \in 1..Len(s) |-> LowerChar(s[k])]

\* str.rfind(c): the last index of c in s, 0 when absent (Python: -1)
RFind(s, c) ==
    IF \E k \in 1..Len(s) : s[k] = c
    THEN CHOOSE k \in 1..Len(s) : s[k] = c /\ \A j \in (k+1)..Len(s) : s[j] # c
    ELSE 0

\* s without its trailing "/" characters
RECURSIVE StripSlashes(_)
StripSlashes(s) ==
    IF Len(s) > 0 /\ s[Len(s)] = "/" THEN StripSlashes(SubSeq(s, 1, Len(s) - 1))
    ELSE s

\* PurePath.name: the final path component
PathName(s) ==
    The({ SubSeq(t, RFind(t, "/") + 1, Len(t)) : t \in {StripSlashes(s)} })

\* PurePath.suffix: name[i:] where i = name.rfind("."), if 0 < i < len(name)-1
\* in Python's 0-based indices, else ""
PathSuffix(s) ==
    The({ The({ IF 1 < i /\ i < Len(name) THEN SubSeq(name, i, Len(name)) ELSE <<>>
                : i \in {RFind(name, ".")} })
          : name \in {PathName(s)} })

\* sub in s (substring test)
Contains(s, sub) ==
    \E k \in 0..(Len(s) - Len(sub)) : SubSeq(s, k + 1, k + Len(sub)) = sub

(***************************************************************************)
(* Inputs                                                                  *)
(***************************************************************************)
\* extraction.py SUPPORTED_EXTENSIONS
SUPPORTED_EXTENSIONS ==
    { <<".","p","d","f">>, <<".","d","o","c">>, <<".","d","o","c","x">>,
      <<".","p","p","t">>, <<".","p","p","t","x">>, <<".","x","l","s","x">>,
      <<".","x","l","s">>, <<".","c","s","v">>, <<".","r","t","f">>,
      <<".","h","t","m","l">>, <<".","t","x","t">>, <<".","m","d">> }

\* UploadFile.filename is Optional[str]: named = FALSE is None
NoName == [named |-> FALSE, chars |-> <<>>]
Named(s) == [named |-> TRUE, chars |-> s]

Upload(name, payload) == [filename |-> name, payload |-> payload]

\* the uploads a batch is drawn from: every shape of filename the suffix
\* check tells apart; two of them carry a payload the engine is given
Uploads ==
    { Upload(NoName, <<>>),                          \* None, empty
      Upload(Named(<<".","m","d">>), <<7>>),         \* ".md": leading dot only
      Upload(Named(<<"a",".","M","D">>), <<8, 9>>),  \* "a.MD": allow-listed once lowered
      Upload(Named(<<"a",".","x","y">>), <<7>>),     \* "a.xy": not allow-listed
      Upload(Named(<<>>), <<>>),                     \* "", empty
      Upload(Named(<<"n">>), <<>>),                  \* "n": no dot, empty
      Upload(Named(<<"x",".","y","/","c">>), <<>>),  \* "x.y/c": dot in a directory, empty
      Upload(Named(<<"a",".","M","D">>), <<>>),      \* "a.MD": allow-listed, empty
      Upload(Named(<<"a",".","x","y">>), <<>>) }     \* "a.xy": not allow-listed, empty

\* the uploads of the batches whose every behaviour is followed to its end
LiveUploads ==
    { Upload(Named(<<"a",".","M","D">>), <<8, 9>>),
      Upload(Named(<<"a",".","x","y">>), <<7>>),
      Upload(Named(<<"n">>), <<>>),
      Upload(NoName, <<>>) }

Batches(uploads) == UNION { [1..n -> uploads] : n \in 0..MaxFiles }

\* str(x) of an Optional[str] inside an f-string
Str(name) == IF name.named THEN name.chars ELSE <<"N","o","n","e">>

(***************************************************************************)
(* extraction.py                                                           *)
(***************************************************************************)
\* _normalized_suffix
NormalizedSuffix(name) ==
    IF ~name.named \/ name.chars = <<>> THEN <<>>
    ELSE The({ Lower(suffix) : suffix \in {PathSuffix(name.chars)} })

\* class ExtractionError, as raised at each of its three raise statements
ExtractionError(kind, msg, cause) ==
    [type |-> "ExtractionError", kind |-> kind, msg |-> msg, cause |-> cause]

\* any other exception: what the upload, the file system or the engine raises
Raised(msg) ==
    [type |-> "Exception", kind |-> "unexpected", msg |-> msg, cause |-> <<>>]

ReadError    == Raised(<<"read failed">>)
CloseError   == Raised(<<"close failed">>)
CreateError  == Raised(<<"cannot create temporary file">>)
WriteError   == Raised(<<"write failed">>)
FlushError   == Raised(<<"flush failed">>)
EngineError  == Raised(<<"cannot partition">>)

\* a variant of Unsupported that compares the suffix as written, not lowered
UnsupportedCaseSensitive(name) ==
    /\ name.named
    /\ \E suffix \in {PathSuffix(name.chars)} :
          suffix # <<>> /\ suffix \notin SUPPORTED_EXTENSIONS

\* a variant of Unsupported that drops the `suffix and` of the condition
UnsupportedStrict(name) ==
    \E suffix \in {NormalizedSuffix(name)} : suffix \notin SUPPORTED_EXTENSIONS

\* _validate_extension: the condition of its raise
Unsupported(name) ==
    \E suffix \in {NormalizedSuffix(name)} :
        suffix # <<>> /\ suffix \notin SUPPORTED_EXTENSIONS

\* _validate_extension: the exception it raises
UnsupportedError(name) ==
    ExtractionError("unsupported-format",
        <<"Unsupported file type '">> \o NormalizedSuffix(name)
            \o <<"'. Update SUPPORTED_EXTENSIONS if this format should be accepted.">>,
        <<>>)

\* extract_from_upload, line 73
EmptyError(name) ==
    ExtractionError("empty-payload",
        <<"The uploaded file '">> \o Str(name) \o <<"' is empty.">>, <<>>)

\* a variant of FailedError: the except clause lets the exception through
FailedErrorRaw(name, exc) == exc

\* extract_from_upload, lines 84-87: raise ExtractionError(...) from exc
FailedError(name, exc) ==
    ExtractionError("engine-failure",
        <<"Failed to extract '">> \o Str(name) \o <<"': ">> \o exc.msg, exc.msg)

\* extract_from_upload, line 75
TempSuffix(name) ==
    The({ IF suffix # <<>> THEN suffix ELSE <<".","b","i","n">>
          : suffix \in {NormalizedSuffix(name)} })

\* NamedTemporaryFile: a name no file of the directory has
FreshId == CHOOSE k \in 1..(Cardinality(fs) + 1) : \A f \in fs : f.id # k

\* partition(filename=...) followed by element.to_dict(): the engine is an
\* external collaborator; it yields one element per unit of content, in order
Partition(file) ==
    [k \in 1..Len(file.content) |->
        [type |-> "Text", text |-> file.content[k], filetype |-> file.suffix]]

\* extract_from_upload, line 97
ExtractionResult(name, elements) ==
    [type |-> "result", filename |-> name, elements |-> elements]

NoOutcome == [type |-> "none"]

(***************************************************************************)
(* asyncio.gather over the coroutines, return_exceptions=False            *)
(***************************************************************************)
Pending == [state |-> "pending"]

\* a variant of GatherResults: the results in the order the children completed
GatherResultsByCompletion(out, order) == [k \in 1..Len(out) |-> out[order[k]]]

\* the list gather hands back: one result per child, by the child's position
GatherResults(out, order) == [k \in 1..Len(out) |-> out[k]]

\* a variant of DoneCallback: the children's exceptions are dropped and the
\* results of those that returned are handed back once every child finished
DoneCallbackPartial(fut, i, out, order) ==
    IF fut.state # "pending" THEN fut
    ELSE IF Len(order) = Len(out)
    THEN [state |-> "result",
          value |-> SelectSeq(GatherResults(out, order), LAMBDA r : r.type = "result")]
    ELSE fut

\* a variant of DoneCallback: a later exception replaces the one already set
DoneCallbackLast(fut, i, out, order) ==
    IF fut.state = "result" THEN fut
    ELSE IF out[i].type # "result" THEN [state |-> "exception", exc |-> out[i], child |-> i]
    ELSE IF Len(order) = Len(out) /\ fut.state = "pending"
    THEN [state |-> "result", value |-> GatherResults(out, order)]
    ELSE fut

\* gather's _done_callback for child i, run when the child's task finishes:
\* nothing once the outer future is done; the first exception of a child is set
\* on the outer future at once; the results are set when every child finished
DoneCallback(fut, i, out, order) ==
    IF fut.state # "pending" THEN fut
    ELSE IF out[i].type # "result" THEN [state |-> "exception", exc |-> out[i], child |-> i]
    ELSE IF Len(order) = Len(out) THEN [state |-> "result", value |-> GatherResults(out, order)]
    ELSE fut

\* a variant of ChildrenAfter: a child that raises has gather cancel the
\* children that are still running
ChildrenAfterCancel(i, o) ==
    [k \in DOMAIN pc |->
        IF k = i THEN (IF o.type = "result" THEN "returned" ELSE "raised")
        ELSE IF o.type # "result" /\ pc[k] \notin {"returned", "raised"} THEN "cancelled"
        ELSE pc[k]]

\* the children's positions once child i ends with o: gather cancels no
\* child when one of them raises, the others keep running
ChildrenAfter(i, o) ==
    [pc EXCEPT ![i] = IF o.type = "result" THEN "returned" ELSE "raised"]

\* task i of extract_from_upload ends with result or exception o
Finish(i, o) ==
    \E r \in {o} :
        \E out \in {[outcome EXCEPT ![i] = r]} :
            /\ pc' = ChildrenAfter(i, r)
            /\ outcome' = out
            /\ finished' = Append(finished, i)
            /\ outer' = DoneCallback(outer, i, out, Append(finished, i))

Tasks == 1..Len(files)

(***************************************************************************)
(* extract_from_upload, one action per stretch between two awaits          *)
(***************************************************************************)
\* line 64: _validate_extension, up to `await upload.read()`
Validate(i) ==
    /\ pc[i] = "start"
    /\ \/ /\ Unsupported(files[i].filename)
          /\ Finish(i, UnsupportedError(files[i].filename))
       \/ /\ ~Unsupported(files[i].filename)
          /\ pc' = [pc EXCEPT ![i] = "read"]
          /\ UNCHANGED <<outcome, finished, outer>>
    /\ UNCHANGED <<files, tempFile, tempPath, cleanup, engine, fs, handler, responses>>

\* line 69: `await upload.read()` returns the payload
Read(i) ==
    /\ pc[i] = "read"
    /\ pc' = [pc EXCEPT ![i] = "close"]
    /\ UNCHANGED <<files, tempFile, tempPath, cleanup, engine, outcome, fs,
                   finished, outer, handler, responses>>

\* line 69: `await upload.read()` raises; no handler in extract_from_upload
ReadFails(i) ==
    /\ pc[i] = "read"
    /\ Finish(i, ReadError)
    /\ UNCHANGED <<files, tempFile, tempPath, cleanup, engine, fs, handler, responses>>

\* line 70: `await upload.close()` raises; no handler in extract_from_upload
CloseFails(i) ==
    /\ pc[i] = "close"
    /\ Finish(i, CloseError)
    /\ UNCHANGED <<files, tempFile, tempPath, cleanup, engine, fs, handler, responses>>

\* lines 70-73: close returns and the payload is empty
Empty(i) ==
    /\ pc[i] = "close"
    /\ files[i].payload = <<>>
    /\ Finish(i, EmptyError(files[i].filename))
    /\ UNCHANGED <<files, tempFile, tempPath, cleanup, engine, fs, handler, responses>>

\* lines 88-95, the finally block, on the state (path, dir) it finds:
\* <<what it did, the directory afterwards>>; removeOk is os.remove's outcome
Finally(path, dir, removeOk) ==
    IF path # 0 /\ \E f \in dir : f.id = path
    THEN IF removeOk THEN <<"removed", { f \in dir : f.id # path }>>
         ELSE <<"failed", dir>>
    ELSE <<"skipped", dir>>

\* the value of temp_path once `with NamedTemporaryFile(...)` is left at
\* stage "create" (the constructor raised), "write" (temp_file.write raised),
\* "flush" (closing the file raised) or "ok": line 81 runs after line 80
TempPathAfter(stage, id) == IF stage \in {"flush", "ok"} THEN id ELSE 0

\* lines 70-87 with a non-empty payload, when lines 79-81 raise at `stage`:
\* the except clause wraps the exception, the finally block runs, the task raises
PersistFails(i, stage, exc, removeOk) ==
    /\ pc[i] = "close"
    /\ files[i].payload # <<>>
    /\ LET id   == IF stage = "create" THEN 0 ELSE FreshId
           file == [id |-> id, suffix |-> TempSuffix(files[i].filename),
                    content |-> IF stage = "write" THEN <<>> ELSE files[i].payload]
           dir  == IF stage = "create" THEN fs ELSE fs \cup {file}
           path == TempPathAfter(stage, id)
       IN  \E fin \in {Finally(path, dir, removeOk)} :
               /\ tempFile' = [tempFile EXCEPT ![i] = id]
               /\ tempPath' = [tempPath EXCEPT ![i] = path]
               /\ cleanup' = [cleanup EXCEPT ![i] = fin[1]]
               /\ fs' = fin[2]
               /\ Finish(i, FailedError(files[i].filename, exc))
    /\ UNCHANGED <<files, engine, handler, responses>>

CreateFails(i) == PersistFails(i, "create", CreateError, TRUE)
WriteFails(i) == PersistFails(i, "write", WriteError, TRUE)
FlushFails(i) == \E removeOk \in BOOLEAN : PersistFails(i, "flush", FlushError, removeOk)

\* lines 70-83 with a non-empty payload: the file is written, temp_path is set
\* and the task awaits the executor running _run_partition
Persist(i) ==
    /\ pc[i] = "close"
    /\ files[i].payload # <<>>
    /\ LET id == FreshId
       IN  /\ fs' = fs \cup {[id |-> id, suffix |-> TempSuffix(files[i].filename),
                              content |-> files[i].payload]}
           /\ tempFile' = [tempFile EXCEPT ![i] = id]
           /\ tempPath' = [tempPath EXCEPT ![i] = TempPathAfter("ok", id)]
    /\ pc' = [pc EXCEPT ![i] = "engine"]
    /\ UNCHANGED <<files, cleanup, engine, outcome, finished, outer, handler, responses>>

\* lines 55-59 and 83-97: the executor ran partition (it returned, or raised
\* when engineOk is false), the task resumes, runs the finally block and ends
Resume(i, engineOk, removeOk) ==
    /\ pc[i] = "engine"
    /\ \E file \in { f \in fs : f.id = tempPath[i] } :
       \E fin \in {Finally(tempPath[i], fs, removeOk)} :
           /\ engine' = [engine EXCEPT ![i] = TRUE]
           /\ cleanup' = [cleanup EXCEPT ![i] = fin[1]]
           /\ fs' = fin[2]
           /\ Finish(i, IF engineOk
                        THEN ExtractionResult(files[i].filename, Partition(file))
                        ELSE FailedError(files[i].filename, EngineError))
    /\ UNCHANGED <<files, tempFile, tempPath, handler, responses>>

Partitioned(i) == \E removeOk \in BOOLEAN : Resume(i, TRUE, removeOk)
PartitionFails(i) == \E removeOk \in BOOLEAN : Resume(i, FALSE, removeOk)

(***************************************************************************)
(* main.py: the handler of POST /v1/extract                                *)
(***************************************************************************)
Response(status, body) == [status |-> status, body |-> body]

\* lines 23-24
NoFiles ==
    /\ handler = "received"
    /\ Len(files) = 0
    /\ responses' = Append(responses,
            Response(400, [detail |-> <<"No files provided for extraction.">>]))
    /\ handler' = "responded"
    /\ UNCHANGED <<files, pc, tempFile, tempPath, cleanup, engine, outcome, fs,
                   finished, outer>>

\* line 27: gather wraps every coroutine in a task and the handler awaits
Extract ==
    /\ handler = "received"
    /\ Len(files) > 0
    /\ pc' = [i \in Tasks |-> "start"]
    /\ handler' = "gather"
    /\ UNCHANGED <<files, tempFile, tempPath, cleanup, engine, outcome, fs,
                   finished, outer, responses>>

\* lines 26-36: what the handler answers once the outer future is done
Answer(fut) ==
    IF fut.state = "result"
    THEN Response(200, [documents |->
            [k \in 1..Len(fut.value) |->
                [filename |-> fut.value[k].filename, elements |-> fut.value[k].elements]]])
    ELSE IF fut.exc.type = "ExtractionError"
    THEN Response(400, [detail |-> fut.exc.msg])
    ELSE Response(500, [detail |-> <<"Unexpected extraction failure: ">> \o fut.exc.msg])

\* the handler resumes from `await asyncio.gather(...)`
Respond ==
    /\ handler = "gather"
    /\ outer.state # "pending"
    /\ responses' = Append(responses, Answer(outer))
    /\ handler' = "responded"
    /\ UNCHANGED <<files, pc, tempFile, tempPath, cleanup, engine, outcome, fs,
                   finished, outer>>

(***************************************************************************)
(* Specification                                                           *)
(***************************************************************************)
InitOver(uploads) ==
    /\ files \in Batches(uploads)
    /\ pc = [i \in Tasks |-> "new"]
    /\ tempFile = [i \in Tasks |-> 0]
    /\ tempPath = [i \in Tasks |-> 0]
    /\ cleanup = [i \in Tasks |-> "none"]
    /\ engine = [i \in Tasks |-> FALSE]
    /\ outcome = [i \in Tasks |-> NoOutcome]
    /\ fs = {}
    /\ finished = <<>>
    /\ outer = Pending
    /\ handler = "received"
    /\ responses = <<>>

Init == InitOver(Uploads)

Next ==
    \/ NoFiles
    \/ Extract
    \/ Respond
    \/ \E i \in Tasks : Validate(i)
    \/ \E i \in Tasks : Read(i)
    \/ \E i \in Tasks : ReadFails(i)
    \/ \E i \in Tasks : CloseFails(i)
    \/ \E i \in Tasks : Empty(i)
    \/ \E i \in Tasks : CreateFails(i)
    \/ \E i \in Tasks : WriteFails(i)
    \/ \E i \in Tasks : FlushFails(i)
    \/ \E i \in Tasks : Persist(i)
    \/ \E i \in Tasks : Partitioned(i)
    \/ \E i \in Tasks : PartitionFails(i)

Spec == Init /\ [][Next]_vars

\* every step of task i
TaskStep(i) ==
    /\ i \in Tasks
    /\ \/ Validate(i) \/ Read(i) \/ ReadFails(i) \/ CloseFails(i) \/ Empty(i)
       \/ CreateFails(i) \/ WriteFails(i) \/ FlushFails(i) \/ Persist(i)
       \/ Partitioned(i) \/ PartitionFails(i)

\* the event loop runs every task that is ready, and every call made on the
\* upload, the file system and the engine returns or raises
Fairness ==
    /\ WF_vars(NoFiles)
    /\ WF_vars(Extract)
    /\ WF_vars(Respond)
    /\ \A i \in 1..MaxFiles : WF_vars(TaskStep(i))

FairSpec == InitOver(LiveUploads) /\ [][Next]_vars /\ Fairness

(***************************************************************************)
(* Properties                                                              *)
(***************************************************************************)
Done(i) == pc[i] \in {"returned", "raised"}
Failed(i) == pc[i] = "raised"
Responded == handler = "responded"
RemovalAttempted(i) == cleanup[i] \in {"removed", "failed"}

\* the Extraction Result the handler serialises for task i's return value
Document(i) == [filename |-> files[i].filename, elements |-> outcome[i].elements]

\* the task that failed first in time
FirstFailed == finished[CHOOSE k \in 1..Len(finished) :
                   /\ outcome[finished[k]].type # "result"
                   /\ \A j \in 1..(k - 1) : outcome[finished[j]].type = "result"]

\* C1: when every document of a non-empty batch extracted successfully, the
\* response is 200 and documents[i] is the result of the i-th submitted file,
\* whatever the order in which the invocations completed.
C1_PositionalOrder ==
    (Responded /\ Len(files) > 0 /\ \A i \in Tasks : pc[i] = "returned")
        => /\ responses[1].status = 200
           /\ Len(responses[1].body.documents) = Len(files)
           /\ \A i \in Tasks : responses[1].body.documents[i] = Document(i)

\* C1 witness: a 200 response for two different documents of which the one
\* submitted first completed last.
C1_Witness ==
    /\ Responded /\ Len(files) >= 2
    /\ responses[1].status = 200
    /\ finished[Len(finished)] = 1
    /\ files[1] # files[2]
    /\ responses[1].body.documents[1] = Document(1)

\* C2: when an invocation of the batch failed, the response is an error and
\* holds no documents; a 200 response is produced only when every invocation
\* returned; a failed invocation is never run again.
C2_FailFast ==
    /\ [](\A r \in 1..Len(responses) :
            /\ (\E i \in Tasks : Failed(i))
                 => /\ responses[r].status \in {400, 500}
                    /\ DOMAIN responses[r].body = {"detail"}
            /\ responses[r].status = 200
                 => /\ \A i \in Tasks : pc[i] = "returned"
                    /\ Len(responses[r].body.documents) = Len(files))
    /\ [][\A i \in Tasks : Failed(i) => pc'[i] = "raised" /\ outcome'[i] = outcome[i]]_vars

\* C2 witness: a batch of two in which the second document failed validation
\* after the first was extracted, answered with 400.
C2_Witness ==
    /\ Responded /\ Len(files) = 2
    /\ pc[1] = "returned"
    /\ Failed(2) /\ outcome[2].kind = "unsupported-format"
    /\ responses[1].status = 400

\* C3: once the request's response is produced, every Transient File created
\* by an invocation of the request has been removed or had its removal
\* attempted.  Stated for the files that were written and recorded in temp_path
\* (a file whose write failed is C4's case), in particular those of invocations
\* that still await the engine when another invocation fails.
C3_RequestCleanup ==
    Responded => \A i \in Tasks : tempPath[i] # 0 => RemovalAttempted(i)

\* C4: an invocation that created a Transient File has attempted its deletion
\* when it returns or raises, on every exit path after the creation.
C4_InvocationCleanup ==
    \A i \in Tasks : (Done(i) /\ tempFile[i] # 0) => RemovalAttempted(i)

\* C5: an invocation ends with a raw (non-ExtractionError) exception only when
\* reading or closing the upload raised; every exception of steps 3-4 is
\* replaced by an engine-failure ExtractionError whose message holds the
\* filename and the cause, raised after the finally block ran (which attempted
\* the removal of the recorded temp_path); a response decided by such a failure
\* is a 400, and a 500 never carries a failure of steps 3-4.
C5_Wrapped ==
    /\ \A i \in Tasks :
        /\ (Failed(i) /\ outcome[i].type # "ExtractionError")
              => outcome[i] \in {ReadError, CloseError}
        /\ (Failed(i) /\ (tempFile[i] # 0 \/ engine[i]))
              => outcome[i].kind = "engine-failure"
        /\ (Failed(i) /\ outcome[i].kind = "engine-failure")
              => /\ outcome[i].type = "ExtractionError"
                 /\ outcome[i].cause \in
                        {CreateError.msg, WriteError.msg, FlushError.msg, EngineError.msg}
                 /\ Contains(outcome[i].msg, Str(files[i].filename))
                 /\ Contains(outcome[i].msg, outcome[i].cause)
                 /\ cleanup[i] # "none"
                 /\ tempPath[i] # 0 => RemovalAttempted(i)
    /\ \A r \in 1..Len(responses) :
        /\ (outer.state = "exception" /\ outer.exc.kind = "engine-failure")
              => responses[r].status = 400
        /\ responses[r].status = 500
              => outer.exc \in {ReadError, CloseError}

\* C5 witness: the engine raised for a named document and the response is the
\* 400 that carries the wrapped failure.
C5_Witness ==
    /\ Responded
    /\ \E i \in Tasks :
        /\ engine[i] /\ Failed(i) /\ files[i].filename.named
        /\ outcome[i].cause = EngineError.msg
        /\ cleanup[i] = "removed"
        /\ responses[1] = Response(400, [detail |-> outcome[i].msg])

\* C6: the detail of every 400 response caused by a failed document names that
\* document's filename.
C6_DetailNamesFile ==
    \A r \in 1..Len(responses) :
        (responses[r].status = 400 /\ outer.state = "exception")
            => Contains(responses[r].body.detail, Str(files[outer.child].filename))

\* C7 as stated: a zero-length payload, with any filename, makes extract fail
\* with empty-payload (once the upload was read and closed).
C7_EmptyAnyFilename ==
    \A i \in Tasks :
        (Done(i) /\ files[i].payload = <<>> /\ outcome[i] \notin {ReadError, CloseError})
            => (Failed(i) /\ outcome[i].kind = "empty-payload")

\* C7 amended: a zero-length payload makes extract fail with empty-payload when
\* the filename is absent, has no suffix or has an allow-listed suffix, and with
\* unsupported-format when its suffix is outside the allow-list.
C7_EmptyPayload ==
    \A i \in Tasks :
        (Done(i) /\ files[i].payload = <<>> /\ outcome[i] \notin {ReadError, CloseError})
            => /\ Failed(i)
               /\ LET sfx == NormalizedSuffix(files[i].filename)
                  IN  outcome[i].kind =
                        IF sfx = <<>> \/ sfx \in SUPPORTED_EXTENSIONS
                        THEN "empty-payload" ELSE "unsupported-format"

\* C7 witness: empty payloads under an allow-listed suffix and under no
\* filename at all both failed with empty-payload.
C7_Witness ==
    \E i, j \in Tasks :
        /\ files[i].payload = <<>> /\ files[j].payload = <<>>
        /\ NormalizedSuffix(files[i].filename) \in SUPPORTED_EXTENSIONS
        /\ ~files[j].filename.named
        /\ Failed(i) /\ outcome[i].kind = "empty-payload"
        /\ Failed(j) /\ outcome[j].kind = "empty-payload"

\* C8: a filename whose lowercase suffix is non-empty and outside the
\* allow-list makes extract fail with unsupported-format as its first step,
\* with no Transient File created and the engine not invoked by that
\* invocation; a filename without suffix, or no filename, is never rejected
\* with unsupported-format.
C8_ValidationFirst ==
    \A i \in Tasks :
        LET sfx == IF files[i].filename.named
                   THEN Lower(PathSuffix(files[i].filename.chars)) ELSE <<>>
        IN  /\ (sfx # <<>> /\ sfx \notin SUPPORTED_EXTENSIONS)
                 => /\ pc[i] \in {"new", "start", "raised"}
                    /\ Failed(i) => outcome[i].kind = "unsupported-format"
                    /\ tempFile[i] = 0 /\ tempPath[i] = 0 /\ ~engine[i]
                    /\ \A f \in fs : \E j \in Tasks \ {i} : tempFile[j] = f.id
            /\ (sfx = <<>> /\ Failed(i)) => outcome[i].kind # "unsupported-format"

\* C8 witness: an unsupported document was rejected while a document named
\* ".md" (no suffix) of the same batch went on to the engine.
C8_Witness ==
    \E i, j \in Tasks :
        /\ Failed(i) /\ outcome[i].kind = "unsupported-format"
        /\ files[j].filename = Named(<<".", "m", "d">>)
        /\ pc[j] = "returned"

\* C9: once the batch is fanned out, every invocation eventually returns or
\* raises, none is cancelled, and each one that reached the try block ran its
\* finally block, which attempted the removal of the recorded temp_path.
C9_RunToCompletion ==
    (handler = "gather") ~>
        (\A i \in Tasks :
            /\ Done(i)
            /\ (tempFile[i] # 0 \/ engine[i]) => cleanup[i] # "none"
            /\ tempPath[i] # 0 => RemovalAttempted(i))

\* C9 witness: the error response is out while another invocation, which has
\* written its Transient File, is still awaiting the engine.
C9_Witness ==
    /\ Responded /\ responses[1].status \in {400, 500}
    /\ \E i \in Tasks :
        /\ pc[i] = "engine"
        /\ \E f \in fs : f.id = tempPath[i] /\ f.content = files[i].payload

\* C10: a non-empty batch gets exactly one response; when invocations failed
\* it is decided by the one that failed first in time: 400 with its message
\* for an ExtractionError, 500 with the prefixed message otherwise, which
\* only reading or closing the upload causes; later failures change nothing.
C10_FirstFailureDecides ==
    /\ [](/\ Len(responses) <= 1
          /\ Responded <=> Len(responses) = 1
          /\ (Responded /\ \E i \in Tasks : Failed(i) /\ outer.state = "exception")
               => LET exc == outcome[FirstFailed]
                  IN  /\ outer.child = FirstFailed
                      /\ responses[1] =
                            IF exc.type = "ExtractionError"
                            THEN Response(400, [detail |-> exc.msg])
                            ELSE Response(500, [detail |->
                                    <<"Unexpected extraction failure: ">> \o exc.msg])
                      /\ responses[1].status = 500 => exc \in {ReadError, CloseError})
    /\ [][responses # <<>> => responses' = responses]_vars
    /\ (Len(files) > 0) ~> (Len(responses) = 1)

\* C10 witness: two invocations failed, the one submitted second first, and
\* the response carries the second one's failure, a 500.
C10_Witness ==
    /\ Responded /\ Len(files) = 2
    /\ Failed(1) /\ Failed(2)
    /\ finished = <<2, 1>>
    /\ outcome[1].type = "ExtractionError"
    /\ responses[1].status = 500
====
